---- MODULE Spec2Model ----
(***************************************************************************)
(* Model of the Daily Game Play Loop of src/game-master/game_master.py:    *)
(* the GameMasterAgent object (agent, npc_manager, llm_model, world_state),*)
(* its initialize() method, the four phase methods, run_daily_game_loop,   *)
(* run_scheduled_daily_loop, run_timed_simulation and main().              *)
(*                                                                         *)
(* Texts produced by external collaborators are records; the text a live   *)
(* backend returns is drawn from a small set, a raised exception is one of *)
(* the outcomes of every call to a live backend.                           *)
(***************************************************************************)
EXTENDS Integers, Sequences, FiniteSets, TLC

\* ------------------------------------------------------------------ bounds
MaxCycles == 2      \* cycle attempts started in one behaviour
MaxInits == 1       \* calls of initialize() in one behaviour
MaxNpcs == 3        \* NPCs registered with the NPC manager
MaxAgentOut == 2    \* distinct texts the live agent may return

\* ------------------------------------------------- constants of the program
BACKOFF_SECONDS == 3600
SIM_WAIT_EPISODE == 1
SIM_WAIT_VOTES == 30
SIM_WAIT_CONTENT == 10
SIM_WAIT_CYCLE == 60
SIM_WAIT_RETRY == 10
TRIGGER_HOUR == 8

Modes == {"single", "scheduled", "simulation"}
Entries == {"main", "api"}

CAPTAIN == "Captain Eva Rodriguez"
ENGINEER == "Chief Engineer Marcus Chen"
EXTRA_NPC == "Extra Crew Member"
ContentKinds == {"image", "video", "3d_scene", "voiceover"}

\* ------------------------------------------------------------------- texts
EmptyText == [kind |-> "empty"]
Unset == [kind |-> "unset"]
AgentText(k) == [kind |-> "agent", n |-> k]
AgentTexts == {AgentText(k) : k \in 1..MaxAgentOut}

\* line 157: the fallback story embeds the day and nothing else of the state
FallbackStory(day) == [kind |-> "fallback_story", day |-> day]
\* lines 258-268: the fallback outcome JSON
FallbackContent == [kind |-> "fallback_content_json"]
\* line 312: the fallback teaser
FallbackTeaser == [kind |-> "fallback_teaser"]

\* line 182: "<name> remains silent, contemplating the situation."
SilentLine(name) == [kind |-> "remains_silent", who |-> name]
\* lines 172-174: dialogue.get("response", "No response generated")
NoResponseText == [kind |-> "no_response_generated"]
NpcResponse(name) == [kind |-> "npc_response", who |-> name]
\* lines 187-196: the two fixed dialogues used without an NPC manager
FixedDialogue(name) == [kind |-> "fixed_dialogue", who |-> name]
FallbackDialogues ==
    << [npc |-> CAPTAIN, dialogue |-> FixedDialogue(CAPTAIN)],
       [npc |-> ENGINEER, dialogue |-> FixedDialogue(ENGINEER)] >>

\* lines 216-220
SampleVotes == << [kind |-> "vote", n |-> 1], [kind |-> "vote", n |-> 2],
                  [kind |-> "vote", n |-> 3] >>

\* lines 272-283: the four stored prompts are fixed strings, one per kind
PlaceholderPrompt(kind) == [kind |-> "placeholder_prompt", for |-> kind]
StoredPromptsWithoutVoiceover ==
    [k \in ContentKinds \ {"voiceover"} |-> PlaceholderPrompt(k)]
StoredPrompts == [k \in ContentKinds |-> PlaceholderPrompt(k)]
NoContent == [k \in {} |-> Unset]

\* outcomes of one npc.get_llm_response call and of the .get("response", ..)
NpcOutcomes == {"raise", "response", "no_response"}

\* ------------------------------------------------------------------- state
VARIABLES
    agent,          \* self.agent: "None", "with_tools" or "without_tools"
    npc_manager,    \* self.npc_manager: [present, npcs]
    llm_model,      \* self.llm_model: "None" or "model"
    world_state,    \* self.world_state
    entry,          \* who drives the object: main() or a host calling the API
    mode,           \* GAME_MASTER_MODE
    pc,             \* position of the running task
    wake,           \* position to resume at after the current sleep
    sleep_for,      \* seconds of the current asyncio.sleep
    init_status,    \* "not_called", "completed" or "raised" (last initialize)
    inits,          \* number of initialize() calls so far
    cycles,         \* number of cycle attempts started so far
    frame,          \* locals of the running cycle
    prompt,         \* the prompt built last
    agent_calls,    \* prompts passed to the live agent in this cycle
    npc_calls,      \* outcomes of the NPC calls of the last Phase 1
    trace,          \* phases entered in this cycle, in order
    day0,           \* world_state["day"] when this cycle started
    waits,          \* sleeps taken since this cycle started
    result,         \* last value returned by run_daily_game_loop
    raised,         \* the phase whose exception is in flight / was last caught
    now,            \* wall clock (scheduled mode): [mo, d, h]
    next_run,       \* next_run of run_scheduled_daily_loop
    game_master_mode, \* the environment variable GAME_MASTER_MODE, or "unset"
    published,      \* number of publish_result calls that have returned
    started,        \* operations started on the object, in order
    logged,         \* the last record a loop logged about a cycle attempt
    reply,          \* what the last run_task call gave its caller, until
                    \* the caller starts an operation
    heap,           \* the list objects in use and who refers to them
    other           \* position of a second task on the same object

vars == << agent, npc_manager, llm_model, world_state, entry, mode, pc, wake,
           sleep_for, init_status, inits, cycles, frame, prompt, agent_calls,
           npc_calls, trace, day0, waits, result, raised, now, next_run,
           game_master_mode, published, started, logged, reply, heap,
           other >>

obj == << agent, npc_manager, llm_model >>
clock == << now, next_run >>
env == << entry, mode, game_master_mode >>
log == << published, started, logged, reply >>
shared == << heap, other >>

\* lines 42-48
InitialWorldState ==
    [ day |-> 1,
      story_summary |-> EmptyText,
      player_decisions |-> << >>,
      npc_interactions |-> << >>,
      generated_content |-> NoContent ]

\* The list objects behind world_state["npc_interactions"] and
\* world_state["player_decisions"]. An object is named by the number of the
\* cycle whose code created it, 0 for the lists of __init__ (lines 45-46);
\* ws, loc and ret name the objects that world_state, the locals of the
\* running loop and the result returned last refer to.
NoLists == [npcs |-> 0 - 1, votes |-> 0 - 1]
InitialHeap ==
    [ npcs |-> [i \in {0} |-> << >>],
      votes |-> [i \in {0} |-> << >>],
      ws |-> [npcs |-> 0, votes |-> 0],
      loc |-> NoLists,
      ret |-> NoLists ]

\* an object nothing refers to any more is freed
Collected(h) ==
    LET live(f) == {h.ws[f], h.loc[f], h.ret[f]} \cap DOMAIN h[f]
    IN  [h EXCEPT !.npcs = [i \in live("npcs") |-> h.npcs[i]],
                  !.votes = [i \in live("votes") |-> h.votes[i]]]

\* the list world_state holds emptied and refilled, and returned
HeapAfterStoreInPlace(f, content) ==
    Collected([heap EXCEPT ![f] = [@ EXCEPT ![heap.ws[f]] = content],
                           !.loc[f] = heap.ws[f]])

\* lines 161-198 and 216-223: a list is built as a new object, the field of
\* world_state is assigned to it, and it is returned to the loop
HeapAfterStore(f, content) ==
    LET grown == [i \in DOMAIN heap[f] \cup {cycles} |->
                     IF i = cycles THEN content ELSE heap[f][i]]
    IN  Collected([heap EXCEPT ![f] = grown,
                               !.ws[f] = cycles,
                               !.loc[f] = cycles])

\* lines 351-360 and 364-369: run_daily_game_loop returns; a completed result
\* refers to the lists its locals referred to, and the locals are gone
HeapAfterReturn(completed) ==
    Collected([heap EXCEPT !.ret = (IF completed THEN heap.loc ELSE NoLists),
                           !.loc = NoLists])

NoManager == [present |-> FALSE, npcs |-> << >>]
NoFrame == [ story |-> Unset, npc_dialogues |-> << >>, player_decisions |-> << >>,
             content_result |-> Unset, teaser |-> Unset ]
NoResult == [status |-> "none"]
NoPrompt == [kind |-> "none"]
NoLog == [kind |-> "none"]
NoReply == [kind |-> "none"]

\* --------------------------------------------------------------- calendar
DaysIn(mo) == IF mo = 2 THEN 28
              ELSE IF mo \in {4, 6, 9, 11} THEN 30 ELSE 31

StartMonths == {2, 12}
StartHours == {7, 8, 23}
StartClocks ==
    UNION { { [mo |-> m, d |-> dd, h |-> hh] :
                dd \in {DaysIn(m) - 1, DaysIn(m)}, hh \in StartHours } :
            m \in StartMonths }
Midnight == [mo |-> 1, d |-> 1, h |-> 0]

\* timedelta(days=1): the same hour of the next calendar day
DayAfter(t) ==
    IF t.d < DaysIn(t.mo) THEN [t EXCEPT !.d = t.d + 1]
    ELSE [t EXCEPT !.mo = (t.mo % 12) + 1, !.d = 1]

\* timedelta arithmetic: t plus n hours, calendar-correct
RECURSIVE AddHours(_, _)
AddHours(t, n) ==
    IF t.h + n < 24 THEN [t EXCEPT !.h = t.h + n]
    ELSE AddHours([DayAfter(t) EXCEPT !.h = 0], n - (24 - t.h))

\* ---------------------------------------------------------- mode selection
\* values of GAME_MASTER_MODE the process is started with; a host calling
\* the API names the operation itself
EnvValues(e) ==
    IF e = "main"
    THEN {"unset", "single", "scheduled", "simulation", "SIMULATION", "daily"}
    ELSE Modes

\* str.lower() on the values above
Lower(v) == IF v = "SIMULATION" THEN "simulation" ELSE v

\* the default being the simulation
ModeReadDefaultSimulation(v) ==
    Lower(IF v = "unset" THEN "simulation" ELSE v)

\* line 478: os.getenv("GAME_MASTER_MODE", "single").lower()
ModeRead(v) == Lower(IF v = "unset" THEN "single" ELSE v)

\* lines 480-489: if / elif / else on the mode read
OperationFor(v) ==
    IF ModeRead(v) = "simulation" THEN "simulation"
    ELSE IF ModeRead(v) = "scheduled" THEN "scheduled" ELSE "single"

\* ------------------------------------------------------------------- Init
\* lines 35-48 (__init__), with the environment the process runs in
Init ==
    /\ agent = "None"
    /\ npc_manager = NoManager
    /\ llm_model = "None"
    /\ world_state = InitialWorldState
    /\ entry \in Entries
    /\ game_master_mode \in EnvValues(entry)
    /\ mode = OperationFor(game_master_mode)
    /\ pc = "idle"
    /\ wake = "none"
    /\ sleep_for = 0
    /\ init_status = "not_called"
    /\ inits = 0
    /\ cycles = 0
    /\ frame = NoFrame
    /\ prompt = NoPrompt
    /\ agent_calls = << >>
    /\ npc_calls = << >>
    /\ trace = << >>
    /\ day0 = 1
    /\ waits = << >>
    /\ result = NoResult
    /\ raised = "none"
    /\ now \in (IF mode = "scheduled" THEN StartClocks ELSE {Midnight})
    /\ next_run = now
    /\ published = 0
    /\ started = << >>
    /\ logged = NoLog
    /\ reply = NoReply
    /\ heap = InitialHeap
    /\ other = "none"

\* ------------------------------------------------------------- initialize
\* lines 56-70: a failing LlamaCppModel constructor is logged and re-raised
InitializeRaises(llmFails) == llmFails

\* a failed construction leaving a manager without NPCs
ManagerEmptyOnFailure(npcFails) ==
    IF npcFails THEN [present |-> TRUE, npcs |-> << >>]
    ELSE [present |-> TRUE, npcs |-> << CAPTAIN, ENGINEER >>]

\* lines 73-101: the manager with its two NPCs, or None when construction fails
ManagerAfterInit(npcFails) ==
    IF npcFails THEN NoManager
    ELSE [present |-> TRUE, npcs |-> << CAPTAIN, ENGINEER >>]

\* the MCP failure leaving the object without an agent
AgentDegradedOnMcpFailure(mcpFails) ==
    IF mcpFails THEN "None" ELSE "with_tools"

\* lines 104-129: the agent with the MCP tools, or, when the MCP connection
\* fails, an agent of the same model without tools
AgentAfterInit(mcpFails) ==
    IF mcpFails THEN "without_tools" ELSE "with_tools"

\* where control goes when initialize() raises: main() logs and re-raises
\* (lines 502-504); a host calling the API keeps the object
AfterInitRaise == IF entry = "main" THEN "fatal" ELSE "idle"

\* lines 50-131 (called by create_game_master_agent, lines 460-462)
Initialize(llmFails, npcFails, mcpFails) ==
    /\ pc = "idle"
    /\ inits < MaxInits
    /\ entry = "main" => init_status = "not_called"
    /\ inits' = inits + 1
    /\ IF InitializeRaises(llmFails)
       THEN /\ init_status' = "raised"
            /\ pc' = AfterInitRaise
            /\ UNCHANGED obj
       ELSE /\ llm_model' = "model"
            /\ npc_manager' = ManagerAfterInit(npcFails)
            /\ agent' = AgentAfterInit(mcpFails)
            /\ init_status' = "completed"
            /\ pc' = "idle"
    /\ UNCHANGED << world_state, env, shared, log, wake, sleep_for, cycles,
                    frame, prompt, agent_calls, npc_calls, trace, day0, waits,
                    result, raised, clock >>

\* lines 95-96 (NPCManager.add_npc), called by a host on the public attribute
AddNpc ==
    /\ pc = "idle"
    /\ entry = "api"
    /\ npc_manager.present
    /\ Len(npc_manager.npcs) < MaxNpcs
    /\ npc_manager' = [npc_manager EXCEPT !.npcs = Append(@, EXTRA_NPC)]
    /\ UNCHANGED << agent, llm_model, world_state, env, shared, log, pc, wake,
                    sleep_for, init_status, inits, cycles, frame, prompt,
                    agent_calls, npc_calls, trace, day0, waits, result, raised,
                    clock >>

\* lines 477-489: main() selects the operation from GAME_MASTER_MODE; a host
\* calls the operation on the object it constructed
EntryPoint(m) ==
    IF m = "simulation" THEN "SIM_TOP"
    ELSE IF m = "scheduled" THEN "SCHED_TOP" ELSE "CALL"

Dispatch ==
    /\ pc = "idle"
    /\ entry = "main" => init_status = "completed"
    /\ cycles < MaxCycles
    /\ pc' = EntryPoint(mode)
    /\ started' = Append(started, EntryPoint(mode))
    /\ reply' = NoReply
    /\ UNCHANGED << obj, world_state, env, shared, published, logged, wake,
                    sleep_for, init_status, inits, cycles, frame, prompt,
                    agent_calls, npc_calls, trace, day0, waits, result, raised,
                    clock >>

\* ------------------------------------------------------------ one cycle
\* line 330 / line 407: a cycle attempt starts
BeginCycle ==
    /\ pc \in {"CALL", "SIM_TOP"}
    /\ cycles < MaxCycles
    /\ cycles' = cycles + 1
    /\ pc' = "P1"
    /\ trace' = << >>
    /\ day0' = world_state.day
    /\ frame' = NoFrame
    /\ agent_calls' = << >>
    /\ waits' = << >>
    /\ raised' = "none"
    /\ UNCHANGED << obj, world_state, env, shared, log, wake, sleep_for,
                    init_status, inits, prompt, npc_calls, result, clock >>

\* `if self.agent:` (lines 153, 254, 308)
AgentLive == agent # "None"
\* results of self.agent(prompt): 0 is a raised exception, k > 0 one of the
\* `texts` texts the call may return
AgentResults(texts) == IF AgentLive THEN 0..texts ELSE {1}
AgentRaises(out) == AgentLive /\ out = 0
CallsMade(p) == IF AgentLive THEN Append(agent_calls, p) ELSE agent_calls

\* the simulation resuming one phase too far after Phase 1
AfterPhaseSkippingVotes(nextpc, seconds) ==
    IF mode = "simulation"
    THEN /\ pc' = "SLEEP"
         /\ wake' = (IF nextpc = "P23" THEN "P45" ELSE nextpc)
         /\ sleep_for' = seconds
         /\ waits' = Append(waits, seconds)
    ELSE /\ pc' = nextpc
         /\ UNCHANGED << wake, sleep_for, waits >>

\* the simulation going back to the top of its loop after the votes
AfterPhaseRestartingCycle(nextpc, seconds) ==
    IF mode = "simulation"
    THEN /\ pc' = "SLEEP"
         /\ wake' = (IF nextpc = "P45" THEN "SIM_TOP" ELSE nextpc)
         /\ sleep_for' = seconds
         /\ waits' = Append(waits, seconds)
    ELSE /\ pc' = nextpc
         /\ UNCHANGED << wake, sleep_for, waits >>

\* the waits of the simulation growing with the day
AfterPhaseWaitGrowingWithDay(nextpc, seconds) ==
    IF mode = "simulation"
    THEN /\ pc' = "SLEEP"
         /\ wake' = nextpc
         /\ sleep_for' = seconds * world_state.day
         /\ waits' = Append(waits, seconds * world_state.day)
    ELSE /\ pc' = nextpc
         /\ UNCHANGED << wake, sleep_for, waits >>

\* where the task goes after a phase: run_timed_simulation sleeps (lines 411,
\* 416, 421, 430), run_daily_game_loop goes straight on (lines 335-347)
AfterPhase(nextpc, seconds) ==
    IF mode = "simulation"
    THEN /\ pc' = "SLEEP"
         /\ wake' = nextpc
         /\ sleep_for' = seconds
         /\ waits' = Append(waits, seconds)
    ELSE /\ pc' = nextpc
         /\ UNCHANGED << wake, sleep_for, waits >>

\* the day already incremented when the exception leaves the phase
PhaseRaisesAfterAdvance(name) ==
    /\ pc' = "EXC"
    /\ raised' = name
    /\ world_state' = [world_state EXCEPT !.day = @ + 1]
    /\ UNCHANGED << frame, npc_calls, wake, sleep_for, waits >>

\* an exception leaves the phase: nothing more of the phase is executed
PhaseRaises(name) ==
    /\ pc' = "EXC"
    /\ raised' = name
    /\ UNCHANGED << world_state, frame, npc_calls, wake, sleep_for, waits >>

\* lines 138-150
EpisodePrompt ==
    [ kind |-> "episode", day |-> world_state.day,
      story |-> world_state.story_summary ]

\* the fallback story quoting the summary of the day before
StoryOfQuotingSummary(out) ==
    IF AgentLive THEN AgentText(out)
    ELSE [ kind |-> "fallback_story", day |-> world_state.day,
           after |-> world_state.story_summary ]

\* lines 153-157
StoryOf(out) ==
    IF AgentLive THEN AgentText(out) ELSE FallbackStory(world_state.day)

\* lines 165-184: one NPC's entry
DialogueEntry(name, outcome) ==
    [ npc |-> name,
      dialogue |-> IF outcome = "raise" THEN SilentLine(name)
                   ELSE IF outcome = "response" THEN NpcResponse(name)
                   ELSE NoResponseText ]

\* the first failing NPC ending the loop
DialoguesUntilFailure(outcomes) ==
    IF npc_manager.present
    THEN LET failing == { i \in 1..Len(npc_manager.npcs) : outcomes[i] = "raise" }
             last == IF failing = {} THEN Len(npc_manager.npcs)
                     ELSE (CHOOSE i \in failing : \A j \in failing : i <= j) - 1
         IN  [ i \in 1..last |->
                 DialogueEntry(npc_manager.npcs[i], outcomes[i]) ]
    ELSE FallbackDialogues

\* lines 162-196
DialoguesOf(outcomes) ==
    IF npc_manager.present
    THEN [ i \in 1..Len(npc_manager.npcs) |->
             DialogueEntry(npc_manager.npcs[i], outcomes[i]) ]
    ELSE FallbackDialogues

NpcOutcomeSeqs ==
    IF npc_manager.present
    THEN [1..Len(npc_manager.npcs) -> NpcOutcomes]
    ELSE { << >> }

\* Phase 1 storing the dialogues only
WorldAfterEpisodeStoryNotStored(story, dialogues) ==
    [world_state EXCEPT !.npc_interactions = dialogues]

\* lines 158 and 198
WorldAfterEpisode(story, dialogues) ==
    [world_state EXCEPT !.story_summary = story,
                        !.npc_interactions = dialogues]

\* lines 133-201
GenerateEpisode(out, outcomes) ==
    /\ pc = "P1"
    /\ trace' = Append(trace, "episode")
    /\ prompt' = EpisodePrompt
    /\ agent_calls' = CallsMade(EpisodePrompt)
    /\ IF AgentRaises(out)
       THEN /\ PhaseRaises("episode")
            /\ heap' = heap
       ELSE /\ world_state' =
                 WorldAfterEpisode(StoryOf(out), DialoguesOf(outcomes))
            /\ heap' = HeapAfterStore("npcs", DialoguesOf(outcomes))
            /\ frame' = [frame EXCEPT !.story = StoryOf(out),
                                      !.npc_dialogues = DialoguesOf(outcomes)]
            /\ npc_calls' = outcomes
            /\ raised' = raised
            /\ AfterPhase("P23", SIM_WAIT_EPISODE)
    /\ UNCHANGED << obj, env, other, log, init_status, inits, cycles, day0,
                    result, clock >>

\* Phase 2 leaving the votes world_state already holds
VotesKeptFromBefore == world_state.player_decisions

\* the votes of the cycle added to the votes already held
VotesMerged == world_state.player_decisions \o SampleVotes

\* line 223: self.world_state["player_decisions"] = sample_votes
VotesStored == SampleVotes

\* lines 203-226
CollectVotes ==
    /\ pc = "P23"
    /\ trace' = Append(trace, "votes")
    /\ world_state' = [world_state EXCEPT !.player_decisions = VotesStored]
    /\ frame' = [frame EXCEPT !.player_decisions = SampleVotes]
    /\ heap' = HeapAfterStore("votes", VotesStored)
    /\ AfterPhase("P45", SIM_WAIT_VOTES)
    /\ UNCHANGED << obj, env, other, log, init_status, inits, cycles, prompt,
                    agent_calls, npc_calls, day0, result, raised, clock >>

\* lines 235-251
OutcomePrompt ==
    [ kind |-> "outcome", story |-> world_state.story_summary,
      npcs |-> world_state.npc_interactions,
      decisions |-> world_state.player_decisions ]

\* lines 254-268
ContentOf(out) == IF AgentLive THEN AgentText(out) ELSE FallbackContent

\* lines 250 and 256-268: the four prompts the composer's return value
\* carries, one per kind (the fallback JSON's "content_prompts" when the
\* agent is None)
PromptsOf(content) ==
    [ k \in ContentKinds |-> [kind |-> "prompt", from |-> content, for |-> k] ]

\* the composition phase storing the prompts before it calls the agent
ComposeContentStoringFirst(out) ==
    /\ pc = "P45"
    /\ trace' = Append(trace, "compose")
    /\ prompt' = OutcomePrompt
    /\ agent_calls' = CallsMade(OutcomePrompt)
    /\ world_state' = [world_state EXCEPT !.generated_content = StoredPrompts]
    /\ IF AgentRaises(out)
       THEN /\ pc' = "EXC"
            /\ raised' = "compose"
            /\ UNCHANGED << frame, npc_calls, wake, sleep_for, waits >>
       ELSE /\ frame' = [frame EXCEPT !.content_result = ContentOf(out)]
            /\ raised' = raised
            /\ AfterPhase("P6", SIM_WAIT_CONTENT)
            /\ UNCHANGED npc_calls
    /\ UNCHANGED << obj, env, shared, log, init_status, inits, cycles, day0,
                    result, clock >>

\* lines 228-293
ComposeContent(out) ==
    /\ pc = "P45"
    /\ trace' = Append(trace, "compose")
    /\ prompt' = OutcomePrompt
    /\ agent_calls' = CallsMade(OutcomePrompt)
    /\ IF AgentRaises(out)
       THEN PhaseRaises("compose")
       ELSE /\ world_state' =
                 [world_state EXCEPT !.generated_content = StoredPrompts]
            /\ frame' = [frame EXCEPT !.content_result = ContentOf(out)]
            /\ raised' = raised
            /\ AfterPhase("P6", SIM_WAIT_CONTENT)
            /\ UNCHANGED npc_calls
    /\ UNCHANGED << obj, env, shared, log, init_status, inits, cycles, day0,
                    result, clock >>

\* lines 300-306
TeaserPrompt ==
    [ kind |-> "teaser", story |-> world_state.story_summary,
      decisions |-> world_state.player_decisions ]

\* lines 308-312
TeaserOf(out) == IF AgentLive THEN AgentText(out) ELSE FallbackTeaser

\* lines 295-321: publish_result up to the publication
PublishTeaser(out) ==
    /\ pc = "P6"
    /\ trace' = Append(trace, "publish")
    /\ prompt' = TeaserPrompt
    /\ agent_calls' = CallsMade(TeaserPrompt)
    /\ IF AgentRaises(out)
       THEN PhaseRaises("publish")
       ELSE /\ frame' = [frame EXCEPT !.teaser = TeaserOf(out)]
            /\ pc' = "ADV"
            /\ UNCHANGED << world_state, npc_calls, raised, wake, sleep_for,
                            waits >>
    /\ UNCHANGED << obj, env, shared, log, init_status, inits, cycles, day0,
                    result, clock >>

\* lines 315-321: what publish_result publishes (logs), read from world_state
\* after the teaser was generated
Publication ==
    [ story |-> world_state.story_summary,
      npcs |-> world_state.npc_interactions,
      decisions |-> world_state.player_decisions,
      content |-> world_state.generated_content,
      teaser |-> frame.teaser ]

\* the day advanced by two
DayAfterAdvanceByTwo == world_state.day + 2

\* the simulation leaving the day as it is
DayAfterAdvanceOutsideSimulation ==
    IF mode = "simulation" THEN world_state.day ELSE world_state.day + 1

\* line 324
DayAfterAdvance == world_state.day + 1

\* lines 323-326: publish_result increments the day and returns the teaser
AdvanceDay ==
    /\ pc = "ADV"
    /\ trace' = Append(trace, "advance")
    /\ world_state' = [world_state EXCEPT !.day = DayAfterAdvance]
    /\ pc' = "REP"
    /\ published' = published + 1
    /\ UNCHANGED << obj, env, shared, started, logged, reply, wake, sleep_for,
                    init_status, inits, cycles, frame, prompt, agent_calls,
                    npc_calls, day0, waits, result, raised, clock >>

\* the result carrying the day the cycle started with
CompletedResultWithStartDay ==
    [ story |-> frame.story,
      npc_dialogues |-> frame.npc_dialogues,
      player_decisions |-> frame.player_decisions,
      content_result |-> frame.content_result,
      teaser |-> frame.teaser,
      day |-> day0,
      status |-> "completed" ]

\* lines 351-360
CompletedResult ==
    [ story |-> frame.story,
      npc_dialogues |-> frame.npc_dialogues,
      player_decisions |-> frame.player_decisions,
      content_result |-> frame.content_result,
      teaser |-> frame.teaser,
      day |-> world_state.day,
      status |-> "completed" ]

\* lines 364-369
FailedResult ==
    [ status |-> "failed", error |-> raised, day |-> world_state.day ]

\* line 393: "Daily loop result: <status>"
CycleResultLog == [status |-> result.status]
\* line 426: "Completed day <day - 1> cycle"
CompletedDayLog == [completed_day |-> world_state.day - 1]
\* line 433: "Error in timed simulation: <exception>"
SimulationErrorLog == [error |-> raised]

\* lines 349-360 (run_daily_game_loop) and 426-430 (run_timed_simulation)
Report ==
    /\ pc = "REP"
    /\ trace' = Append(trace, "report")
    /\ IF mode = "simulation"
       THEN /\ AfterPhase("SIM_TOP", SIM_WAIT_CYCLE)
            /\ UNCHANGED << result, heap >>
       ELSE /\ result' = CompletedResult
            /\ heap' = HeapAfterReturn(TRUE)
            /\ pc' = "RET"
            /\ UNCHANGED << wake, sleep_for, waits >>
    /\ logged' = (IF mode = "simulation" THEN CompletedDayLog ELSE logged)
    /\ UNCHANGED << obj, world_state, env, other, published, started, reply,
                    init_status, inits, cycles, frame, prompt, agent_calls,
                    npc_calls, day0, raised, clock >>

\* the exception of a phase leaving run_daily_game_loop
CycleErrorPropagates ==
    /\ pc = "EXC"
    /\ mode # "simulation"
    /\ pc' = "fatal"
    /\ UNCHANGED << obj, world_state, env, shared, log, wake, sleep_for,
                    init_status, inits, cycles, frame, prompt, agent_calls,
                    npc_calls, trace, day0, waits, result, raised, clock >>

\* the failure of a cycle raised into the scheduled loop
CycleErrorReachesScheduler ==
    /\ pc = "EXC"
    /\ mode # "simulation"
    /\ result' = FailedResult
    /\ heap' = HeapAfterReturn(FALSE)
    /\ pc' = (IF mode = "scheduled" THEN "SCHED_EXC" ELSE "RET")
    /\ UNCHANGED << obj, world_state, env, other, log, wake, sleep_for,
                    init_status, inits, cycles, frame, prompt, agent_calls,
                    npc_calls, trace, day0, waits, raised, clock >>

\* lines 362-369: the handler of run_daily_game_loop
HandleCycleError ==
    /\ pc = "EXC"
    /\ mode # "simulation"
    /\ result' = FailedResult
    /\ heap' = HeapAfterReturn(FALSE)
    /\ pc' = "RET"
    /\ UNCHANGED << obj, world_state, env, other, log, wake, sleep_for,
                    init_status, inits, cycles, frame, prompt, agent_calls,
                    npc_calls, trace, day0, waits, raised, clock >>

\* the simulation waiting a whole inter-cycle interval after an error
SimErrorWaitsFullCycle ==
    /\ pc = "EXC"
    /\ mode = "simulation"
    /\ pc' = "SLEEP"
    /\ wake' = "SIM_TOP"
    /\ sleep_for' = SIM_WAIT_CYCLE
    /\ waits' = Append(waits, SIM_WAIT_CYCLE)
    /\ logged' = SimulationErrorLog
    /\ UNCHANGED << obj, world_state, env, shared, published, started, reply,
                    init_status, inits, cycles, frame, prompt, agent_calls,
                    npc_calls, trace, day0, result, raised, clock >>

\* the simulation resuming at the phase that raised
HandleSimErrorResumesPhase ==
    /\ pc = "EXC"
    /\ mode = "simulation"
    /\ pc' = "SLEEP"
    /\ wake' = (IF raised = "episode" THEN "P1"
                ELSE IF raised = "compose" THEN "P45" ELSE "P6")
    /\ sleep_for' = SIM_WAIT_RETRY
    /\ waits' = Append(waits, SIM_WAIT_RETRY)
    /\ logged' = SimulationErrorLog
    /\ UNCHANGED << obj, world_state, env, shared, published, started, reply,
                    init_status, inits, cycles, frame, prompt, agent_calls,
                    npc_calls, trace, day0, result, raised, clock >>

\* lines 432-434: the handler of run_timed_simulation
HandleSimError ==
    /\ pc = "EXC"
    /\ mode = "simulation"
    /\ pc' = "SLEEP"
    /\ wake' = "SIM_TOP"
    /\ sleep_for' = SIM_WAIT_RETRY
    /\ waits' = Append(waits, SIM_WAIT_RETRY)
    /\ logged' = SimulationErrorLog
    /\ UNCHANGED << obj, world_state, env, shared, published, started, reply,
                    init_status, inits, cycles, frame, prompt, agent_calls,
                    npc_calls, trace, day0, result, raised, clock >>

\* main() calling run_daily_game_loop again after logging the result
MainSingleLoops ==
    /\ pc = "RET"
    /\ mode = "single"
    /\ entry = "main"
    /\ pc' = "CALL"
    /\ UNCHANGED << obj, world_state, env, shared, log, wake, sleep_for,
                    init_status, inits, cycles, frame, prompt, agent_calls,
                    npc_calls, trace, day0, waits, result, raised, clock >>

\* ------------------------------------------------------ returns and sleeps
\* lines 489-500, 505-506: main() logs the result of its one cycle and ends
MainSingleDone ==
    /\ pc = "RET"
    /\ mode = "single"
    /\ entry = "main"
    /\ pc' = "done"
    /\ UNCHANGED << obj, world_state, env, shared, log, wake, sleep_for,
                    init_status, inits, cycles, frame, prompt, agent_calls,
                    npc_calls, trace, day0, waits, result, raised, clock >>

\* run_daily_game_loop returns to a host that called it (lines 351, 364)
ApiReturn ==
    /\ pc = "RET"
    /\ mode = "single"
    /\ entry = "api"
    /\ pc' = "idle"
    /\ UNCHANGED << obj, world_state, env, shared, log, wake, sleep_for,
                    init_status, inits, cycles, frame, prompt, agent_calls,
                    npc_calls, trace, day0, waits, result, raised, clock >>

\* asyncio.sleep returns (lines 389, 398, 411, 416, 421, 430, 434); the wall
\* clock has moved on by the time slept
ClockAfterSleep ==
    IF mode = "scheduled" THEN AddHours(now, sleep_for \div 3600) ELSE now

\* lines 438-440 and 445: what run_task gives its caller; an exception of the
\* agent is not caught
FallbackReply == [kind |-> "fallback_response"]
TaskRaised == [kind |-> "raised"]
ReplyOf(out) ==
    IF ~ AgentLive THEN FallbackReply
    ELSE IF AgentRaises(out) THEN TaskRaised ELSE AgentText(out)

\* run_task building an agent when the object has none
RunTaskCreatingAgent(out) ==
    /\ pc = "idle"
    /\ entry = "api"
    /\ agent' = (IF AgentLive THEN agent ELSE "without_tools")
    /\ reply' = ReplyOf(out)
    /\ UNCHANGED << npc_manager, llm_model, world_state, env, shared,
                    published, started, logged, wake, sleep_for, init_status,
                    inits, cycles, frame, prompt, agent_calls, npc_calls,
                    trace, day0, waits, result, raised, clock, pc >>

\* lines 436-445: run_task, called by a host between its other calls
RunTask(out) ==
    /\ pc = "idle"
    /\ entry = "api"
    /\ reply' = ReplyOf(out)
    /\ UNCHANGED << obj, world_state, env, shared, published, started, logged,
                    wake, sleep_for, init_status, inits, cycles, frame, prompt,
                    agent_calls, npc_calls, trace, day0, waits, result, raised,
                    clock, pc >>

Wake ==
    /\ pc = "SLEEP"
    /\ pc' = wake
    /\ wake' = "none"
    /\ now' = ClockAfterSleep
    /\ UNCHANGED << obj, world_state, env, shared, log, sleep_for, init_status,
                    inits, cycles, frame, prompt, agent_calls, npc_calls,
                    trace, day0, waits, result, raised, next_run >>

\* ------------------------------------------------------- scheduled mode
\* line 381: now.replace(hour=8, minute=0, second=0, microsecond=0)
TriggerToday(t) == [t EXCEPT !.h = TRIGGER_HOUR]
\* the comparison of line 382 taken as next_run < now
TriggerElapsedStrict(t) == TRIGGER_HOUR < t.h
\* line 382: next_run <= now (both on the same calendar day)
TriggerElapsed(t) == TRIGGER_HOUR <= t.h
\* line 383: datetime.replace raises ValueError for a day the month lacks
ReplaceDayRaises(t) == TriggerElapsed(t) /\ t.d + 1 > DaysIn(t.mo)
\* lines 381-383
NextRunOf(t) ==
    IF TriggerElapsed(t)
    THEN [TriggerToday(t) EXCEPT !.d = t.d + 1]
    ELSE TriggerToday(t)
\* line 385, in hours; next_run is today or tomorrow in the same month
WaitHours(t, nr) == (nr.d - t.d) * 24 + nr.h - t.h

\* lines 377-389: one scheduling iteration up to its sleep
SchedCompute ==
    /\ pc = "SCHED_TOP"
    /\ cycles < MaxCycles
    /\ IF ReplaceDayRaises(now)
       THEN /\ pc' = "SCHED_EXC"
            /\ raised' = "schedule"
            /\ UNCHANGED << next_run, wake, sleep_for >>
       ELSE /\ next_run' = NextRunOf(now)
            /\ pc' = "SLEEP"
            /\ wake' = "CALL"
            /\ sleep_for' = WaitHours(now, NextRunOf(now)) * 3600
            /\ UNCHANGED raised
    /\ UNCHANGED << obj, world_state, env, shared, log, init_status, inits,
                    cycles, frame, prompt, agent_calls, npc_calls, trace, day0,
                    waits, result, now >>

\* the loop running the next cycle at once, without a new trigger
SchedLogRunsAgain(latency) ==
    /\ pc = "RET"
    /\ mode = "scheduled"
    /\ pc' = "CALL"
    /\ now' = AddHours(now, latency)
    /\ logged' = CycleResultLog
    /\ UNCHANGED << obj, world_state, env, shared, published, started, reply,
                    wake, sleep_for, init_status, inits, cycles, frame, prompt,
                    agent_calls, npc_calls, trace, day0, waits, result, raised,
                    next_run >>

\* lines 392-393: the cycle returned its result; it is logged and the loop
\* goes round. The cycle took under an hour or about an hour of wall time.
SchedLog(latency) ==
    /\ pc = "RET"
    /\ mode = "scheduled"
    /\ pc' = "SCHED_TOP"
    /\ now' = AddHours(now, latency)
    /\ logged' = CycleResultLog
    /\ UNCHANGED << obj, world_state, env, shared, published, started, reply,
                    wake, sleep_for, init_status, inits, cycles, frame, prompt,
                    agent_calls, npc_calls, trace, day0, waits, result, raised,
                    next_run >>

\* the exception of a scheduling iteration ending the loop
SchedErrorEndsLoop ==
    /\ pc = "SCHED_EXC"
    /\ pc' = "fatal"
    /\ UNCHANGED << obj, world_state, env, shared, log, wake, sleep_for,
                    init_status, inits, cycles, frame, prompt, agent_calls,
                    npc_calls, trace, day0, waits, result, raised, clock >>

\* the handler at the loop boundary sleeping a whole day
HandleSchedErrorSleepsADay ==
    /\ pc = "SCHED_EXC"
    /\ pc' = "SLEEP"
    /\ wake' = "SCHED_TOP"
    /\ sleep_for' = 24 * BACKOFF_SECONDS
    /\ UNCHANGED << obj, world_state, env, shared, log, init_status, inits,
                    cycles, frame, prompt, agent_calls, npc_calls, trace, day0,
                    waits, result, raised, clock >>

\* lines 395-398: the handler at the loop boundary
HandleSchedError ==
    /\ pc = "SCHED_EXC"
    /\ pc' = "SLEEP"
    /\ wake' = "SCHED_TOP"
    /\ sleep_for' = BACKOFF_SECONDS
    /\ UNCHANGED << obj, world_state, env, shared, log, init_status, inits,
                    cycles, frame, prompt, agent_calls, npc_calls, trace, day0,
                    waits, result, raised, clock >>

\* ------------------------------------------------------------------- Next
Next ==
    \/ \E llmFails \in BOOLEAN, npcFails \in BOOLEAN, mcpFails \in BOOLEAN :
          Initialize(llmFails, npcFails, mcpFails)
    \/ Dispatch
    \/ BeginCycle
    \/ \E out \in AgentResults(MaxAgentOut), outcomes \in NpcOutcomeSeqs :
          GenerateEpisode(out, outcomes)
    \/ CollectVotes
    \/ \E out \in AgentResults(1) : ComposeContent(out)
    \/ \E out \in AgentResults(1) : PublishTeaser(out)
    \/ AdvanceDay
    \/ Report
    \/ HandleCycleError
    \/ HandleSimError
    \/ MainSingleDone
    \/ ApiReturn
    \/ \E out \in AgentResults(1) : RunTask(out)
    \/ Wake
    \/ SchedCompute
    \/ \E latency \in 0..1 : SchedLog(latency)
    \/ HandleSchedError

Spec == Init /\ [][Next]_vars

\* Phase 1 on rosters of any size: a host registers further NPCs with the
\* manager that initialize() built, then runs a cycle up to the end of Phase 1
InitNpc == Init /\ entry = "api" /\ mode = "single"

NextNpc ==
    \/ \E llmFails \in BOOLEAN, npcFails \in BOOLEAN, mcpFails \in BOOLEAN :
          Initialize(llmFails, npcFails, mcpFails)
    \/ AddNpc
    \/ Dispatch
    \/ BeginCycle
    \/ \E out \in AgentResults(MaxAgentOut), outcomes \in NpcOutcomeSeqs :
          GenerateEpisode(out, outcomes)

SpecNpc == InitNpc /\ [][NextNpc]_vars

\* The scheduled loop under main() (lines 465-489 with GAME_MASTER_MODE set to
\* scheduled), on an event loop that keeps running its only task: every step
\* that stays possible is eventually taken.
InitSched == Init /\ entry = "main" /\ mode = "scheduled"

NextSched ==
    \/ \E llmFails \in BOOLEAN, npcFails \in BOOLEAN, mcpFails \in BOOLEAN :
          Initialize(llmFails, npcFails, mcpFails)
    \/ Dispatch
    \/ BeginCycle
    \/ \E out \in AgentResults(1), outcomes \in NpcOutcomeSeqs :
          GenerateEpisode(out, outcomes)
    \/ CollectVotes
    \/ \E out \in AgentResults(1) : ComposeContent(out)
    \/ \E out \in AgentResults(1) : PublishTeaser(out)
    \/ AdvanceDay
    \/ Report
    \/ HandleCycleError
    \/ Wake
    \/ SchedCompute
    \/ \E latency \in 0..1 : SchedLog(latency)
    \/ HandleSchedError

SpecSched == InitSched /\ [][NextSched]_vars /\ WF_vars(NextSched)

\* Two tasks on one object and one event loop: a host awaits
\* run_daily_game_loop calls (the task of pc) while a task it created runs
\* run_timed_simulation on the same object (the task of other). The event loop
\* runs one task until it suspends. The prompt, frame, trace and logged of the
\* model are those of the task of pc.

\* a list built and stored by the second task, as a new object; the second
\* task names its objects by negative numbers, and a name is free again once
\* its object is
HeapAfterOtherStore(f, content) ==
    LET free == {0 - k : k \in 2..5} \ DOMAIN heap[f]
        id == CHOOSE i \in free : \A j \in free : j <= i
        grown == [i \in DOMAIN heap[f] \cup {id} |->
                     IF i = id THEN content ELSE heap[f][i]]
    IN  Collected([heap EXCEPT ![f] = grown, !.ws[f] = id])

\* run_daily_game_loop sleeping between its phases as the simulation does
SuspendedBetweenPhases == pc \in {"idle", "SLEEP", "P23", "P45", "P6"}

\* where the task of pc has given up the event loop: in an asyncio.sleep
\* (lines 389, 398, 411, 416, 421, 430, 434) or between two calls of the host.
\* The awaits of lines 335, 339, 343 and 347 are on coroutines that contain no
\* await (lines 133-326), so they never suspend.
Suspended == pc \in {"idle", "SLEEP"}

\* the host creates the task that runs run_timed_simulation (line 400)
OtherStarts ==
    /\ Suspended
    /\ other = "none"
    /\ other' = "P1"
    /\ UNCHANGED << obj, world_state, env, heap, log, pc, wake, sleep_for,
                    init_status, inits, cycles, frame, prompt, agent_calls,
                    npc_calls, trace, day0, waits, result, raised, clock >>

\* lines 404-434: the second task is resumed, runs the phase it was waiting
\* for and suspends in the sleep after it; an exception of the phase takes it
\* to line 434 and from there to a new cycle
OtherPhase(out, outcomes) ==
    /\ Suspended
    /\ other \in {"P1", "P23", "P45", "P6"}
    /\ other = "P6" => published < MaxCycles
    /\ IF other # "P23" /\ AgentRaises(out)
       THEN /\ other' = "P1"
            /\ UNCHANGED << world_state, heap, published >>
       ELSE CASE other = "P1" ->
                   /\ world_state' = WorldAfterEpisode(StoryOf(out),
                                                       DialoguesOf(outcomes))
                   /\ heap' = HeapAfterOtherStore("npcs",
                                                  DialoguesOf(outcomes))
                   /\ other' = "P23"
                   /\ UNCHANGED published
              [] other = "P23" ->
                   /\ world_state' =
                         [world_state EXCEPT !.player_decisions = VotesStored]
                   /\ heap' = HeapAfterOtherStore("votes", VotesStored)
                   /\ other' = "P45"
                   /\ UNCHANGED published
              [] other = "P45" ->
                   /\ world_state' =
                         [world_state EXCEPT !.generated_content = StoredPrompts]
                   /\ other' = "P6"
                   /\ UNCHANGED << heap, published >>
              [] other = "P6" ->
                   /\ world_state' =
                         [world_state EXCEPT !.day = DayAfterAdvance]
                   /\ published' = published + 1
                   /\ other' = "P1"
                   /\ UNCHANGED heap
    /\ UNCHANGED << obj, env, started, logged, reply, pc, wake, sleep_for,
                    init_status, inits, cycles, frame, prompt, agent_calls,
                    npc_calls, trace, day0, waits, result, raised, clock >>

InitTasks == Init /\ entry = "api" /\ mode = "single"

\* every NPC call answering
AllRespond ==
    IF npc_manager.present
    THEN [i \in 1..Len(npc_manager.npcs) |-> "response"]
    ELSE << >>

NextTasks ==
    \/ \E npcFails \in BOOLEAN : Initialize(FALSE, npcFails, FALSE)
    \/ Dispatch
    \/ BeginCycle
    \/ \E out \in AgentResults(1) : GenerateEpisode(out, AllRespond)
    \/ CollectVotes
    \/ \E out \in AgentResults(1) : ComposeContent(out)
    \/ \E out \in AgentResults(1) : PublishTeaser(out)
    \/ AdvanceDay
    \/ Report
    \/ HandleCycleError
    \/ ApiReturn
    \/ OtherStarts
    \/ \E out \in AgentResults(MaxAgentOut) : OtherPhase(out, AllRespond)

SpecTasks == InitTasks /\ [][NextTasks]_vars

\* A host stopping the loops. The task is cancelled (Task.cancel(), or Ctrl-C
\* under asyncio.run, line 522) while it is suspended in one of its
\* asyncio.sleep calls (lines 389, 398, 411, 416, 421, 430, 434):
\* CancelledError is raised at that await and, not being an Exception, passes
\* the handlers of lines 395 and 432 and ends the operation.
Cancel ==
    /\ pc = "SLEEP"
    /\ pc' = "cancelled"
    /\ UNCHANGED << obj, world_state, env, shared, log, wake, sleep_for,
                    init_status, inits, cycles, frame, prompt, agent_calls,
                    npc_calls, trace, day0, waits, result, raised, clock >>

NextHost ==
    \/ Next
    \/ Cancel

SpecHost == Init /\ [][NextHost]_vars

\* ================================================================ properties
PhaseOrder == << "episode", "votes", "compose", "publish", "advance", "report" >>
IsPrefix(a, b) == Len(a) <= Len(b) /\ SubSeq(b, 1, Len(a)) = a
\* positions of a cycle after Phase 1 has returned
AfterEpisode == {"P23", "P45", "P6", "ADV", "REP"}
\* positions outside the loops of the two continuous modes
Ended == {"idle", "done", "fatal"}

\* C1: whenever run_daily_game_loop has returned, a 'completed' result goes
\* with a day one above the day at the call and a 'failed' result with the
\* day of the call, in every call of every sequence of calls.
C1_DayAdvancesOnlyOnCompleted ==
    pc = "RET" =>
        /\ result.status \in {"completed", "failed"}
        /\ result.status = "completed" => world_state.day = day0 + 1
        /\ result.status = "failed" => world_state.day = day0

\* a second call that failed after a first one that completed
C1_Witness ==
    /\ pc = "RET"
    /\ mode = "single"
    /\ cycles = 2
    /\ result.status = "failed"
    /\ world_state.day = 2

\* C2: an exception raised by a phase of run_daily_game_loop is caught by
\* its handler: the next step is the return of a result with status 'failed',
\* the error and the day the cycle started with, and the task does not end.
C2_ExceptionBecomesFailedResult ==
    [][ (pc = "EXC" /\ mode # "simulation") =>
            /\ pc' = "RET"
            /\ result' = [ status |-> "failed", error |-> raised, day |-> day0 ]
            /\ raised \in {"episode", "compose", "publish"} ]_vars

\* the publish phase raised and the caller got a failed result
C2_Witness ==
    /\ pc = "RET"
    /\ result.status = "failed"
    /\ result.error = "publish"
    /\ result.day = world_state.day

\* C3: in every mode the phases entered in a cycle are an initial part of
\* episode, votes, compose, publish, advance, report, each entered once and
\* in this order; the day changes only after the first four, and a cycle that
\* completed has entered all six.
C3_PhasesInOrder ==
    /\ IsPrefix(trace, PhaseOrder)
    /\ world_state.day # day0 => Len(trace) >= 5
    /\ (pc = "RET" /\ result.status = "completed") => trace = PhaseOrder
    /\ (pc = "SLEEP" /\ wake = "SIM_TOP" /\ sleep_for = SIM_WAIT_CYCLE)
          => trace = PhaseOrder

\* a second simulated cycle that ran all six phases
C3_Witness ==
    /\ mode = "simulation"
    /\ cycles = 2
    /\ trace = PhaseOrder
    /\ world_state.day = 3

\* C4: initialize() never raises, whichever collaborators are unavailable.
C4_InitializeNeverRaises == init_status # "raised"

AgentSteps == SelectSeq(trace, LAMBDA ph : ph \in {"episode", "compose", "publish"})

C6_StoryOfSameCycle ==
    /\ [][ /\ pc = "P1" => /\ prompt'.kind = "episode"
                           /\ prompt'.story = world_state.story_summary
                           /\ prompt'.day = world_state.day
           /\ (pc = "P1" /\ pc' # "EXC") =>
                 /\ frame'.story \in AgentTexts \cup {FallbackStory(day0)}
                 /\ world_state'.story_summary = frame'.story
           /\ pc # "P1" =>
                 world_state'.story_summary = world_state.story_summary
           /\ pc \notin {"P1", "CALL", "SIM_TOP"} => frame'.story = frame.story
         ]_vars
    /\ [](trace = PhaseOrder => world_state.story_summary = frame.story)

\* a second cycle whose narrative step got the first cycle's story as prior
\* summary and returned another story
C6_Witness ==
    /\ cycles = 2
    /\ trace = PhaseOrder
    /\ Len(agent_calls) = 3
    /\ agent_calls[1].story = AgentText(1)
    /\ frame.story = AgentText(2)
    /\ world_state.story_summary = AgentText(2)

\* C7 as stated: when Phase 1 has returned with an NPC manager of any number
\* of NPCs, npc_interactions has one entry per NPC in the manager's order; the
\* entry of an NPC whose call raised is its "remains silent" line and the
\* entry of every NPC whose call did not raise is its generated dialogue.
C7_GeneratedUnlessRaised ==
    (pc = "P23" /\ npc_manager.present) =>
        /\ Len(world_state.npc_interactions) = Len(npc_manager.npcs)
        /\ \A i \in 1..Len(npc_manager.npcs) :
              LET e == world_state.npc_interactions[i]
                  name == npc_manager.npcs[i]
              IN  /\ e.npc = name
                  /\ npc_calls[i] = "raise" => e.dialogue = SilentLine(name)
                  /\ npc_calls[i] # "raise" => e.dialogue = NpcResponse(name)

\* C7 as amended: when Phase 1 has returned with an NPC manager of any number
\* of NPCs, npc_interactions has one entry per NPC in the manager's order,
\* whichever of the NPC calls raised: the entry of an NPC whose call raised is
\* its "remains silent" line, the entry of every other NPC is the response of
\* its reply, or the text "No response generated" when the reply has none.
C7_OneEntryPerNpc ==
    (pc = "P23" /\ npc_manager.present) =>
        /\ Len(npc_calls) = Len(npc_manager.npcs)
        /\ Len(world_state.npc_interactions) = Len(npc_manager.npcs)
        /\ frame.npc_dialogues = world_state.npc_interactions
        /\ \A i \in 1..Len(npc_manager.npcs) :
              LET e == world_state.npc_interactions[i]
                  name == npc_manager.npcs[i]
              IN  /\ e.npc = name
                  /\ npc_calls[i] = "raise" => e.dialogue = SilentLine(name)
                  /\ npc_calls[i] = "response" => e.dialogue = NpcResponse(name)
                  /\ npc_calls[i] = "no_response" => e.dialogue = NoResponseText

\* three NPCs, the first and the last of which failed
C7_Witness ==
    /\ pc = "P23"
    /\ Len(npc_manager.npcs) = 3
    /\ npc_calls = << "raise", "response", "raise" >>
    /\ Len(world_state.npc_interactions) = 3

\* C8: the first cycle on an object whose initialize() was never called (no
\* agent, no NPC manager) returns a completed result with day 2, leaves the
\* two fixed dialogues of the Captain and the Chief Engineer in
\* npc_interactions, and the four keys image, video, 3d_scene and voiceover
\* in generated_content.
C8_FallbackOnlyCycle ==
    (pc = "RET" /\ init_status = "not_called" /\ cycles = 1) =>
        /\ result.status = "completed"
        /\ result.day = 2
        /\ world_state.day = 2
        /\ world_state.story_summary = FallbackStory(1)
        /\ world_state.npc_interactions = FallbackDialogues
        /\ Len(world_state.npc_interactions) = 2
        /\ DOMAIN world_state.generated_content = ContentKinds

\* the first cycle of an object that was constructed and never initialized
C8_Witness ==
    /\ pc = "RET"
    /\ init_status = "not_called"
    /\ agent = "None"
    /\ ~npc_manager.present
    /\ cycles = 1
    /\ world_state.day = 2

\* C9: an exception raised by an iteration of run_scheduled_daily_loop is
\* caught at the loop boundary: the next step is a sleep of 3600 seconds
\* after which the iteration starts again, and the task never leaves the loop.
C9_ScheduledLoopSurvives ==
    [][ /\ pc = "SCHED_EXC" =>
              (pc' = "SLEEP" /\ sleep_for' = 3600 /\ wake' = "SCHED_TOP")
        /\ (pc = "SLEEP" /\ wake = "SCHED_TOP") => pc' = "SCHED_TOP"
        /\ (mode = "scheduled" /\ pc \notin Ended) => pc' \notin Ended
      ]_vars

\* the iteration has started again after a backoff
C9_Witness ==
    /\ pc = "SCHED_TOP"
    /\ raised = "schedule"
    /\ sleep_for = BACKOFF_SECONDS

\* C10: an exception raised by a phase of a simulated cycle is caught: the
\* next step is a sleep of 10 seconds, shorter than the 60 seconds between
\* cycles, after which a new cycle starts with Phase 1, and the task never
\* leaves the loop.
C10_SimulationLoopSurvives ==
    [][ /\ (pc = "EXC" /\ mode = "simulation") =>
              /\ pc' = "SLEEP"
              /\ wake' = "SIM_TOP"
              /\ sleep_for' = 10
              /\ sleep_for' < SIM_WAIT_CYCLE
        /\ (pc = "SLEEP" /\ wake = "SIM_TOP") => pc' = "SIM_TOP"
        /\ pc = "SIM_TOP" => (pc' = "P1" /\ trace' = << >>)
        /\ (mode = "simulation" /\ pc \notin Ended) =>
              pc' \notin Ended \cup {"RET"}
      ]_vars

\* a new simulated cycle started after the retry sleep
C10_Witness ==
    /\ mode = "simulation"
    /\ pc = "P1"
    /\ cycles = 2
    /\ sleep_for = SIM_WAIT_RETRY
    /\ world_state.day = 1

\* C11: the scheduling iteration computes a next run for every current date
\* and time, and the next run it sleeps until is at 08:00, strictly later than
\* now, on the same day when now is before 08:00 and on the following
\* calendar day when now is at or after 08:00.
C11_NextRunIsNextEight ==
    /\ pc # "SCHED_EXC"
    /\ (pc = "SLEEP" /\ wake = "CALL") =>
          /\ next_run.h = TRIGGER_HOUR
          /\ next_run # now
          /\ AddHours(now, WaitHours(now, next_run)) = next_run
          /\ WaitHours(now, next_run) > 0
          /\ now.h < TRIGGER_HOUR => next_run = TriggerToday(now)
          /\ now.h >= TRIGGER_HOUR =>
                next_run = AddHours(TriggerToday(now), 24)

C13_DayCountsPublishedCycles ==
    /\ world_state.day = 1 /\ published = 0
    /\ [][ /\ world_state'.day \in Nat
           /\ world_state'.day >= 1
           /\ world_state'.day = 1 + published'
           /\ world_state'.day # world_state.day =>
                 world_state'.day = world_state.day + 1 ]_vars

\* two simulated cycles have reached the end of publish_result
C13_Witness ==
    /\ mode = "simulation"
    /\ published = 2
    /\ world_state.day = 3

\* C14: after every completed cycle story_summary, npc_interactions,
\* player_decisions and generated_content are exactly what the phases of that
\* cycle produced, with nothing of an earlier cycle left in them: their sizes
\* are the same after every cycle, and only day has grown with the cycles.
C14_CycleFieldsOverwritten ==
    trace = PhaseOrder =>
        /\ world_state.story_summary = frame.story
        /\ world_state.npc_interactions = frame.npc_dialogues
        /\ Len(world_state.npc_interactions) = Len(FallbackDialogues)
        /\ world_state.player_decisions = frame.player_decisions
        /\ world_state.player_decisions = SampleVotes
        /\ Len(world_state.player_decisions) = 3
        /\ world_state.generated_content = StoredPrompts
        /\ DOMAIN world_state.generated_content = ContentKinds
        /\ world_state.day = 1 + published

\* a second completed cycle, whose story differs from the first one's
C14_Witness ==
    /\ trace = PhaseOrder
    /\ cycles = 2
    /\ published = 2
    /\ Len(agent_calls) = 3
    /\ agent_calls[1].story \in AgentTexts
    /\ agent_calls[1].story # world_state.story_summary

\* C15: when main runs in single mode it starts run_daily_game_loop once and
\* never again, each phase of that one cycle is entered at most once and in
\* order, no sleep is taken, and once the call has returned, with a completed
\* or a failed result, main ends: no further step of the program is possible.
C15_SingleRunsOneCycle ==
    (entry = "main" /\ mode = "single") =>
        /\ cycles <= 1
        /\ Len(started) <= 1
        /\ IsPrefix(trace, PhaseOrder)
        /\ waits = << >>
        /\ pc \notin {"SLEEP", "SIM_TOP", "SCHED_TOP", "SCHED_EXC"}
        /\ pc = "done" =>
              /\ cycles = 1
              /\ started = << "CALL" >>
              /\ result.status \in {"completed", "failed"}
              /\ ~ ENABLED Next

\* main has ended after its one cycle failed in the composition phase
C15_Witness ==
    /\ entry = "main"
    /\ game_master_mode = "single"
    /\ pc = "done"
    /\ result.status = "failed"
    /\ raised = "compose"
    /\ cycles = 1

\* C16: a process started through main starts at most one operation, the one
\* GAME_MASTER_MODE names: run_timed_simulation for 'simulation',
\* run_scheduled_daily_loop for 'scheduled', one run_daily_game_loop for
\* 'single' and for an unset variable; the task is never at a position of
\* another operation.
C16_ModeSelectsOperation ==
    entry = "main" =>
        /\ Len(started) <= 1
        /\ started # << >> =>
              /\ game_master_mode = "simulation" => started = << "SIM_TOP" >>
              /\ game_master_mode = "scheduled" => started = << "SCHED_TOP" >>
              /\ game_master_mode \in {"single", "unset"} =>
                    started = << "CALL" >> /\ cycles <= 1
        /\ started = << >> => pc \in {"idle", "fatal"} /\ cycles = 0
        /\ started = << "SIM_TOP" >> =>
              pc \notin {"CALL", "RET", "done", "SCHED_TOP", "SCHED_EXC"}
        /\ started = << "SCHED_TOP" >> => pc \notin {"SIM_TOP", "done"}
        /\ started = << "CALL" >> =>
              pc \notin {"SIM_TOP", "SCHED_TOP", "SCHED_EXC", "SLEEP"}

\* main has run its one cycle to completion with the variable unset
C16_Witness ==
    /\ entry = "main"
    /\ game_master_mode = "unset"
    /\ started = << "CALL" >>
    /\ pc = "done"
    /\ result.status = "completed"

RECURSIVE SumSeq(_)
SumSeq(s) == IF s = << >> THEN 0 ELSE Head(s) + SumSeq(Tail(s))

\* C17: in simulation mode, as long as the cycle has not raised, the sleeps
\* taken since the cycle started are the first of 1, 30, 10 and 60 seconds in
\* this order, and a cycle that went through all its phases has slept exactly
\* these four times, 101 seconds in total, whatever the day and the world
\* state.
C17_SimulationWaitsAreFixed ==
    (mode = "simulation" /\ raised = "none") =>
        /\ IsPrefix(waits, << 1, 30, 10, 60 >>)
        /\ trace = PhaseOrder =>
              /\ waits = << 1, 30, 10, 60 >>
              /\ SumSeq(waits) = 101

\* the second simulated cycle, started on day 2, has taken its four sleeps
C17_Witness ==
    /\ mode = "simulation"
    /\ cycles = 2
    /\ day0 = 2
    /\ trace = PhaseOrder
    /\ SumSeq(waits) = 101

\* C18: while agent is None, the story Phase 1 produced and stored is the
\* fallback text of the day the cycle started with and of nothing else, and
\* it differs from the story of the cycle completed before it in the day
\* number only.
C18_FallbackStoryOfDayOnly ==
    ( /\ agent = "None"
      /\ \/ pc \in AfterEpisode \cup {"RET"}
         \/ pc = "SLEEP" /\ wake \in AfterEpisode \cup {"SIM_TOP"} ) =>
        /\ frame.story = FallbackStory(day0)
        /\ world_state.story_summary = FallbackStory(day0)
        /\ DOMAIN frame.story = {"kind", "day"}
        /\ result.status = "completed" =>
              /\ result.story = FallbackStory(result.day - 1)
              /\ [result.story EXCEPT !.day = day0] = frame.story

\* the second of two consecutive calls without an agent has produced its
\* story; the result of the first call is still at hand
C18_Witness ==
    /\ agent = "None"
    /\ mode = "single"
    /\ cycles = 2
    /\ pc = "P23"
    /\ result.status = "completed"
    /\ result.story = FallbackStory(1)
    /\ frame.story = FallbackStory(2)

\* C19: once the composition phase has returned, generated_content holds,
\* under each of the keys image, video, 3d_scene and voiceover, the prompt
\* that the composer call of the same cycle returned for that key.
C19_StoredPromptsAreComposerPrompts ==
    (pc \in {"P6", "ADV", "REP"} \/ (pc = "SLEEP" /\ wake = "P6")) =>
        /\ DOMAIN world_state.generated_content = ContentKinds
        /\ world_state.generated_content = PromptsOf(frame.content_result)

\* C20: when run_daily_game_loop returns a completed result, its day is the
\* day after the advance, one above the day at the call, and its story, NPC
\* dialogues, player decisions and teaser are the values the phases of this
\* cycle returned, the first three equal to what world_state holds.
C20_CompletedResultRecord ==
    (pc = "RET" /\ result.status = "completed") =>
        /\ result.day = day0 + 1
        /\ result.day = world_state.day
        /\ result.story = frame.story
        /\ result.story = world_state.story_summary
        /\ result.story # Unset
        /\ result.npc_dialogues = frame.npc_dialogues
        /\ result.npc_dialogues = world_state.npc_interactions
        /\ result.player_decisions = SampleVotes
        /\ result.player_decisions = world_state.player_decisions
        /\ result.teaser = frame.teaser
        /\ result.teaser \in AgentTexts \cup {FallbackTeaser}

\* the scheduled loop got a completed result from its second cycle
C20_Witness ==
    /\ mode = "scheduled"
    /\ pc = "RET"
    /\ cycles = 2
    /\ result.status = "completed"
    /\ result.day = 3
    /\ result.teaser \in AgentTexts

\* what a cycle that started on day d and got the outputs f from its
\* collaborators leaves in world_state
WorldAfterCycle(d, f) ==
    [ day |-> d + 1,
      story_summary |-> f.story,
      player_decisions |-> f.player_decisions,
      npc_interactions |-> f.npc_dialogues,
      generated_content |-> StoredPrompts ]

\* C21: in every mode, a cycle that went through all its phases leaves a
\* world_state that is determined by the day it started with and by the
\* outputs of its collaborators alone, so a simulated cycle and a
\* run_daily_game_loop call with the same start and the same outputs leave
\* the same world_state; only the simulation sleeps.
C21_ModesLeaveSameWorld ==
    trace = PhaseOrder =>
        /\ world_state = WorldAfterCycle(day0, frame)
        /\ frame.player_decisions = SampleVotes
        /\ frame.story \in AgentTexts \cup {FallbackStory(day0)}
        /\ mode # "simulation" => waits = << >>
        /\ mode = "simulation" => Len(waits) = 4

\* a simulated cycle that started on day 2 has gone through all its phases
C21_Witness ==
    /\ mode = "simulation"
    /\ trace = PhaseOrder
    /\ day0 = 2
    /\ world_state = WorldAfterCycle(2, frame)
    /\ frame.story = AgentText(2)

\* C24: the computation of the next run never raises, and when 08:00 has
\* passed on the last day of a month the next run is 08:00 on the first day
\* of the following month (January after December).
C24_NextRunNeverRaises ==
    /\ raised # "schedule"
    /\ ( /\ pc = "SLEEP"
         /\ wake = "CALL"
         /\ now.h >= TRIGGER_HOUR
         /\ now.d = DaysIn(now.mo) ) =>
            next_run = [ mo |-> (now.mo % 12) + 1, d |-> 1, h |-> TRIGGER_HOUR ]

\* C25: the prompt of the composition phase carries the story and the NPC
\* dialogues Phase 1 of this cycle produced and the votes Phase 2 of this
\* cycle collected; the teaser prompt carries the story and the votes of this
\* cycle, and what is published is the story, dialogues, votes and generated
\* content of this cycle with the teaser.
C25_PhasesSeeSameCycle ==
    /\ ( \/ pc = "P6"
         \/ pc = "SLEEP" /\ wake = "P6"
         \/ pc = "EXC" /\ raised = "compose" ) =>
            /\ prompt = [ kind |-> "outcome",
                          story |-> frame.story,
                          npcs |-> frame.npc_dialogues,
                          decisions |-> frame.player_decisions ]
            /\ frame.story # Unset
            /\ frame.player_decisions = SampleVotes
    /\ pc = "ADV" =>
            /\ prompt = [ kind |-> "teaser",
                          story |-> frame.story,
                          decisions |-> frame.player_decisions ]
            /\ Publication = [ story |-> frame.story,
                               npcs |-> frame.npc_dialogues,
                               decisions |-> frame.player_decisions,
                               content |-> StoredPrompts,
                               teaser |-> frame.teaser ]
            /\ frame.player_decisions = SampleVotes
            /\ frame.teaser # Unset

\* the second cycle is publishing a story that differs from the story the
\* first cycle left, which its Phase 1 prompt quoted
C25_Witness ==
    /\ pc = "ADV"
    /\ cycles = 2
    /\ Len(agent_calls) = 3
    /\ agent_calls[1].story \in AgentTexts
    /\ agent_calls[1].story # Publication.story
    /\ agent_calls[2].story = Publication.story

\* C28: wherever initialize can be called, a call in which only the NPC
\* manager construction fails completes and leaves npc_manager unset; and in
\* every cycle run without a manager, Phase 1 leaves in npc_interactions the
\* two fixed entries, the captain's then the chief engineer's, the same on
\* every day and for every story.
C28_NoManagerMeansFixedDialogues ==
    /\ ( /\ pc = "idle"
         /\ inits < MaxInits
         /\ entry = "main" => init_status = "not_called" ) =>
            ENABLED ( /\ Initialize(FALSE, TRUE, FALSE)
                      /\ init_status' = "completed"
                      /\ ~ npc_manager'.present
                      /\ pc' = "idle" )
    /\ (~ npc_manager.present /\ pc \in AfterEpisode) =>
            /\ Len(world_state.npc_interactions) = 2
            /\ world_state.npc_interactions[1] =
                  [npc |-> CAPTAIN, dialogue |-> FixedDialogue(CAPTAIN)]
            /\ world_state.npc_interactions[2] =
                  [npc |-> ENGINEER, dialogue |-> FixedDialogue(ENGINEER)]
            /\ frame.npc_dialogues = world_state.npc_interactions

\* after an initialize that left no manager, the second cycle, on day 2 and
\* with a story of the live agent, has the two fixed entries
C28_Witness ==
    /\ init_status = "completed"
    /\ ~ npc_manager.present
    /\ agent # "None"
    /\ cycles = 2
    /\ day0 = 2
    /\ pc = "P23"
    /\ frame.story = AgentText(2)
    /\ world_state.npc_interactions = FallbackDialogues

\* the fields of world_state, and the fields each phase writes
WorldFields ==
    {"day", "story_summary", "player_decisions", "npc_interactions",
     "generated_content"}
WrittenBy(phase) ==
    IF phase = "episode" THEN {"story_summary", "npc_interactions"}
    ELSE IF phase = "votes" THEN {"player_decisions"}
    ELSE IF phase = "compose" THEN {"generated_content"}
    ELSE IF phase = "advance" THEN {"day"}
    ELSE {}

\* C29: a phase changes no field of world_state but its own, and none when it
\* raises; once a phase has raised, nothing writes to world_state until the
\* next cycle starts. So after a failure the fields of the earlier phases hold
\* this cycle's values, the others the values they had before the cycle, and
\* the day is the day the cycle started with.
C29_FailedCycleKeepsEarlierWrites ==
    [][ /\ (trace' # trace /\ cycles' = cycles) =>
              \A f \in WorldFields \ WrittenBy(trace'[Len(trace')]) :
                 world_state'[f] = world_state[f]
        /\ pc' = "EXC" =>
              /\ world_state' = world_state
              /\ world_state'.day = day0'
              /\ raised' = "episode" => frame' = NoFrame
              /\ raised' \in {"compose", "publish"} =>
                    /\ world_state'.story_summary = frame'.story
                    /\ world_state'.npc_interactions = frame'.npc_dialogues
                    /\ world_state'.player_decisions = SampleVotes
              /\ raised' = "publish" =>
                    world_state'.generated_content = StoredPrompts
        /\ (raised # "none" /\ cycles' = cycles) =>
              /\ world_state' = world_state
              /\ trace' = trace ]_vars

\* the second cycle raised in the composition phase: the story is its own,
\* the generated content is what the first, completed, cycle stored
C29_Witness ==
    /\ pc = "EXC"
    /\ raised = "compose"
    /\ cycles = 2
    /\ published = 1
    /\ world_state.day = 2
    /\ world_state.story_summary = frame.story
    /\ world_state.generated_content = StoredPrompts
    /\ frame.content_result = Unset

\* C30: in simulation mode, after a phase has raised, the task only sleeps
\* and returns to the top of the loop; the cycle that starts next starts at
\* Phase 1, with nothing kept of the failed one and on the same day; the day
\* changes only at the end of the publication of a cycle in which no phase
\* raised.
C30_SimulationRestartsAtPhaseOne ==
    [][ mode = "simulation" =>
          /\ pc = "EXC" =>
                /\ wake' = "SIM_TOP"
                /\ world_state'.day = day0
          /\ (raised # "none" /\ cycles' = cycles) =>
                /\ pc' \in {"SLEEP", "SIM_TOP"}
                /\ wake' \in {"SIM_TOP", "none"}
          /\ (raised # "none" /\ cycles' # cycles) =>
                /\ pc' = "P1"
                /\ trace' = << >>
                /\ frame' = NoFrame
                /\ day0' = day0
                /\ world_state'.day = day0
          /\ world_state'.day # world_state.day =>
                /\ pc = "ADV"
                /\ raised = "none"
                /\ trace = << "episode", "votes", "compose", "publish" >>
                /\ world_state'.day = day0 + 1 ]_vars

\* the first simulated cycle failed; the second started on day 1 again and
\* has reached the end of the publication
C30_Witness ==
    /\ mode = "simulation"
    /\ cycles = 2
    /\ published = 1
    /\ pc = "REP"
    /\ day0 = 1
    /\ world_state.day = 2

SameDay(a, b) == a.mo = b.mo /\ a.d = b.d

\* C27: in scheduled mode a cycle starts only from the call that follows the
\* sleep until the trigger, at the computed trigger instant, and one cycle
\* per wake-up; when the cycle has returned the loop computes a new trigger
\* and sleeps until it, and after a first cycle each new trigger is on
\* another calendar day than the one before.
C27_OneCyclePerTrigger ==
    [][ mode = "scheduled" =>
          /\ cycles' # cycles =>
                /\ pc = "CALL"
                /\ now = next_run
                /\ now.h = TRIGGER_HOUR
          /\ (pc' = "CALL" /\ pc # "CALL") =>
                /\ pc = "SLEEP"
                /\ wake = "CALL"
                /\ now' = next_run
          /\ pc = "CALL" => (cycles' = cycles + 1 /\ pc' = "P1")
          /\ pc = "RET" => pc' = "SCHED_TOP"
          /\ (pc = "SCHED_TOP" /\ pc' = "SLEEP") =>
                /\ wake' = "CALL"
                /\ sleep_for' = 3600 * WaitHours(now, next_run')
                /\ sleep_for' > 0
                /\ cycles >= 1 => ~ SameDay(next_run', next_run) ]_vars

\* the second cycle of the scheduled loop starts at its trigger, the day
\* after the first
C27_Witness ==
    /\ mode = "scheduled"
    /\ cycles = 2
    /\ pc = "P1"
    /\ now = next_run
    /\ now.h = TRIGGER_HOUR
    /\ published = 1

\* C26: agent, npc_manager and llm_model change only in a step of an
\* initialize call that completes, made while no operation is running: no
\* phase, cycle, loop iteration, sleep or run_task call changes them, and in
\* a process started through main they never change once the operation has
\* started.
C26_AdaptersFixedAtInitialize ==
    [][ /\ obj' # obj =>
              /\ pc = "idle"
              /\ inits' = inits + 1
              /\ init_status' = "completed"
              /\ cycles' = cycles
              /\ trace' = trace
              /\ reply' = reply
        /\ (reply' # reply \/ pc # "idle") => obj' = obj
        /\ (entry = "main" /\ started # << >>) => obj' = obj ]_vars

\* a host ran a cycle on an object without an agent and then called run_task:
\* both took the fallback
C26_Witness ==
    /\ agent = "None"
    /\ pc = "idle"
    /\ cycles = 1
    /\ result.status = "completed"
    /\ result.story = FallbackStory(1)
    /\ reply = FallbackReply

\* C23: in scheduled and in simulation mode, when a cycle attempt has ended
\* and the loop has logged it, the record logged carries the status of the
\* cycle, completed or failed, and its elapsed time.
C23_CycleLogHasStatusAndElapsed ==
    ( \/ mode = "scheduled" /\ pc = "SCHED_TOP" /\ cycles >= 1
      \/ mode = "simulation" /\ pc = "SLEEP" /\ wake = "SIM_TOP" ) =>
        /\ "status" \in DOMAIN logged
        /\ "elapsed" \in DOMAIN logged
        /\ logged.status \in {"completed", "failed"}

\* C22: when a stop request has ended a loop, no cycle is left between two
\* of its phases: no cycle had started, or the last one went through all its
\* phases, or it had raised.
C22_StopOnlyBetweenCycles ==
    pc = "cancelled" =>
        \/ cycles = 0
        \/ trace = PhaseOrder
        \/ raised # "none"

\* C31: in scheduled mode the handler of the loop and its 3600-second sleep
\* are entered only by an exception of the scheduling computation, never by
\* the failure of a cycle; a failed cycle comes back as a result, is logged
\* with its status, and the loop then sleeps until a trigger at 08:00 that
\* lies ahead.
C31_FailedCycleTakesNoBackoff ==
    mode = "scheduled" =>
        /\ pc = "SCHED_EXC" => raised = "schedule"
        /\ (pc = "SLEEP" /\ wake = "SCHED_TOP") =>
              /\ raised = "schedule"
              /\ sleep_for = 3600
        /\ (pc = "RET" /\ raised \in {"episode", "compose", "publish"}) =>
              result = [status |-> "failed", error |-> raised, day |-> day0]
        /\ ( /\ pc \in {"SCHED_TOP", "SLEEP"}
             /\ raised \in {"episode", "compose", "publish"} ) =>
              /\ result.status = "failed"
              /\ logged = [status |-> "failed"]
              /\ pc = "SLEEP" =>
                    /\ wake = "CALL"
                    /\ next_run.h = TRIGGER_HOUR
                    /\ sleep_for = 3600 * WaitHours(now, next_run)
                    /\ sleep_for > 0

\* the scheduled loop sleeps 23 hours or more until its next trigger after a
\* cycle that failed in the composition phase
C31_Witness ==
    /\ mode = "scheduled"
    /\ pc = "SLEEP"
    /\ wake = "CALL"
    /\ cycles = 1
    /\ raised = "compose"
    /\ result.status = "failed"
    /\ logged = [status |-> "failed"]
    /\ sleep_for >= 23 * 3600

\* C33: whenever the scheduled loop sleeps until a trigger, the wait it
\* computed is more than zero and at most 86400 seconds, and the same holds of
\* the computation at every hour of the current day at which it does not raise.
C33_WaitWithinOneDay ==
    mode = "scheduled" =>
        /\ (pc = "SLEEP" /\ wake = "CALL") =>
              /\ sleep_for = 3600 * WaitHours(now, next_run)
              /\ 0 < sleep_for
              /\ sleep_for <= 86400
        /\ \A h \in 0..23 :
              LET t == [now EXCEPT !.h = h]
              IN  ~ReplaceDayRaises(t) =>
                     /\ 0 < 3600 * WaitHours(t, NextRunOf(t))
                     /\ 3600 * WaitHours(t, NextRunOf(t)) <= 86400

\* the loop sleeps the full 24 hours: it computed the wait at 08:00 exactly
C33_Witness ==
    /\ mode = "scheduled"
    /\ pc = "SLEEP"
    /\ wake = "CALL"
    /\ now.h = TRIGGER_HOUR
    /\ sleep_for = 86400

\* the first 08:00 strictly later than the instant t
FirstTriggerAfter(t) ==
    IF t.h < TRIGGER_HOUR THEN TriggerToday(t)
    ELSE DayAfter(TriggerToday(t))
\* the trigger the loop owes next: the present instant when it woke for a
\* cycle, the first 08:00 ahead otherwise
Due == IF pc = "CALL" THEN now ELSE FirstTriggerAfter(now)

\* C32: in scheduled mode no trigger is skipped. The trigger the loop owes is
\* at the start the first 08:00 strictly later than the start instant; it
\* changes only when a cycle starts, which happens at that very instant and
\* moves it to 08:00 of the next day; and, the loop being kept running, each
\* owed cycle does start, whatever the start instant and across the end of a
\* month.
C32_NoTriggerSkipped ==
    /\ [][ mode = "scheduled" =>
              IF cycles' # cycles
              THEN /\ now = Due
                   /\ now' = now
                   /\ Due' = DayAfter(Due)
              ELSE Due' = Due ]_vars
    /\ \A c \in 0..(MaxCycles - 1) :
          (mode = "scheduled" /\ pc = "SCHED_TOP" /\ cycles = c)
             ~> (cycles = c + 1 /\ pc = "P1" /\ now.h = TRIGGER_HOUR)

\* a second cycle starts at 08:00 on the first day of a month, the cycle
\* before it having run on the last day of the month before
C32_Witness ==
    /\ mode = "scheduled"
    /\ cycles = 2
    /\ pc = "P1"
    /\ now.d = 1
    /\ now.h = TRIGGER_HOUR
    /\ next_run = now

\* what the holder of the result returned last reads in it now: the story and
\* the day are values, the dialogues and the decisions are read through the
\* references the result holds
Snapshot ==
    [ story |-> result.story,
      npc_dialogues |-> heap.npcs[heap.ret.npcs],
      player_decisions |-> heap.votes[heap.ret.votes],
      day |-> result.day ]

\* C35: a completed result is a stable snapshot. At return its dialogues and
\* decisions are the very objects world_state holds; every step of a later
\* cycle leaves every existing list object as it is and makes world_state
\* refer to new ones, so that what the holder of the result reads in it (story,
\* dialogues, decisions, day) is what it was at return, until the next call
\* returns.
C35_ReturnedResultStable ==
    [][ /\ \A i \in DOMAIN heap.npcs \cap DOMAIN heap'.npcs :
              heap'.npcs[i] = heap.npcs[i]
        /\ \A i \in DOMAIN heap.votes \cap DOMAIN heap'.votes :
              heap'.votes[i] = heap.votes[i]
        /\ world_state'.npc_interactions = heap'.npcs[heap'.ws.npcs]
        /\ world_state'.player_decisions = heap'.votes[heap'.ws.votes]
        /\ (result'.status = "completed" /\ pc' = "RET") =>
              /\ heap'.ret = heap'.ws
              /\ result'.npc_dialogues = world_state'.npc_interactions
              /\ result'.player_decisions = world_state'.player_decisions
        /\ (result.status = "completed" /\ pc \notin {"REP", "EXC"}) =>
              /\ heap.ret.npcs \in DOMAIN heap.npcs
              /\ heap.ret.votes \in DOMAIN heap.votes
              /\ result' = result
              /\ Snapshot' = Snapshot
              /\ Snapshot.npc_dialogues = result.npc_dialogues
              /\ Snapshot.player_decisions = result.player_decisions
              /\ pc' \in {"P23", "P45", "P6", "ADV", "REP"} =>
                    heap'.ws.npcs # heap'.ret.npcs
              /\ pc' \in {"P45", "P6", "ADV", "REP"} =>
                    heap'.ws.votes # heap'.ret.votes
      ]_vars

\* the second cycle has incremented the day and is about to return; the
\* result of the first cycle still reads as it did, with dialogues other than
\* those world_state holds now
C35_Witness ==
    /\ cycles = 2
    /\ pc = "REP"
    /\ result.status = "completed"
    /\ result.day = 2
    /\ world_state.day = 3
    /\ heap.ret = [npcs |-> 1, votes |-> 1]
    /\ heap.ws = [npcs |-> 2, votes |-> 2]
    /\ Snapshot.npc_dialogues = result.npc_dialogues
    /\ Snapshot.npc_dialogues # world_state.npc_interactions
    /\ Snapshot.story # world_state.story_summary

\* C34 as stated: a run_daily_game_loop call reads no world_state value that
\* another task wrote; in particular the first call on an object finds, in
\* Phase 1, the day and the summary __init__ left.
C34_CallReadsOnlyOwnValues ==
    (cycles = 1 /\ pc = "P23") =>
        /\ prompt.kind = "episode"
        /\ prompt.story = EmptyText
        /\ prompt.day = 1

\* C34, amended: a step of the second task is taken only between two
\* run_daily_game_loop calls, never from the start of a call to its return,
\* and it leaves the locals and the result of the calls alone; so the prompts
\* of the composition and publication phases carry the story, dialogues and
\* decisions the same call stored, and at return world_state holds what the
\* call wrote on top of the day it found. Phase 1 reads the day and the
\* summary the call found, whoever wrote them.
C34_CallRunsUninterrupted ==
    [][ /\ other' # other =>
              /\ pc = "idle"
              /\ pc' = "idle"
              /\ UNCHANGED << frame, trace, prompt, agent_calls, result,
                              cycles, day0 >>
        /\ pc \in {"P1", "P23", "P45", "P6", "ADV"} => world_state.day = day0
        /\ (pc = "P1" /\ pc' = "P23") =>
              /\ prompt'.story = world_state.story_summary
              /\ prompt'.day = world_state.day
        /\ (pc = "P45" /\ pc' = "P6") =>
              prompt' = [ kind |-> "outcome", story |-> frame.story,
                          npcs |-> frame.npc_dialogues,
                          decisions |-> frame.player_decisions ]
        /\ (pc = "P6" /\ pc' = "ADV") =>
              prompt' = [ kind |-> "teaser", story |-> frame.story,
                          decisions |-> frame.player_decisions ]
        /\ (pc = "REP" /\ pc' = "RET") =>
              /\ world_state' = WorldAfterCycle(day0, frame)
              /\ result'.day = day0 + 1
              /\ result'.story = world_state.story_summary
              /\ result'.npc_dialogues = world_state.npc_interactions
              /\ result'.player_decisions = world_state.player_decisions
      ]_vars

\* a first run_daily_game_loop call is about to return while the simulation is
\* suspended in an inter-phase wait; the call started from the day and the
\* summary the simulation had left, and world_state holds what the call wrote
C34_Witness ==
    /\ cycles = 1
    /\ pc = "REP"
    /\ other \in {"P23", "P45", "P6"}
    /\ Len(agent_calls) = 3
    /\ agent_calls[1].story # EmptyText
    /\ world_state = WorldAfterCycle(day0, frame)

====
